---- MODULE Spec2Model ----
(***************************************************************************)
(* Phone Contacts API (src/app.py): the in-memory contact registry, i.e.   *)
(* the module-level dict contacts_db and the counter contact_counter, and  *)
(* the request handlers that read or change them.  One request is handled  *)
(* at a time (spec.md section 5).                                          *)
(***************************************************************************)
EXTENDS Integers, Sequences, FiniteSets

(* ----------------------------- bounds ---------------------------------- *)

\* Create is not taken once contact_counter exceeds MaxId.
MaxId == 3

\* The Create requests that may be in progress at once (ConcurrentSpec).
NumThreads == 2

\* The Create requests that get past validation in a run of ConcurrentSpec.
MaxRequests == 3

(* --------------------------- JSON payloads ------------------------------ *)

Keys == {"name", "phone", "email"}

\* The values a payload may carry under each key.
Vals(k) == IF k = "name" THEN {"", "a"} ELSE IF k = "phone" THEN {"", "1"} ELSE {"e"}

AllVals == UNION {Vals(k) : k \in Keys}

NoMembers == [k \in {} |-> ""]

\* What request.get_json() can return: a JSON value.  obj holds the members of
\* an object, arr the elements of an array or the pieces of a string (a string
\* is a sequence of pieces, so that `in` is a substring test on pieces), num a
\* number or a boolean (Python's bool is an int).
JsonNull == [type |-> "null", obj |-> NoMembers, arr |-> <<>>, num |-> 0]
JsonObject(f) == [type |-> "object", obj |-> f, arr |-> <<>>, num |-> 0]
JsonArray(a) == [type |-> "array", obj |-> NoMembers, arr |-> a, num |-> 0]
JsonString(a) == [type |-> "string", obj |-> NoMembers, arr |-> a, num |-> 0]
JsonNumber(n) == [type |-> "number", obj |-> NoMembers, arr |-> <<>>, num |-> n]
JsonBool(n) == [type |-> "boolean", obj |-> NoMembers, arr |-> <<>>, num |-> n]

Objects ==
    { JsonObject(f) : f \in UNION { {g \in [S -> AllVals] : \A k \in S : g[k] \in Vals(k)} :
                                     S \in SUBSET Keys } }

NonObjects ==
    { JsonNull,
      JsonArray(<<>>), JsonArray(<<"name">>), JsonArray(<<"name", "phone">>),
      JsonString(<<>>), JsonString(<<"phone">>), JsonString(<<"name", " ", "phone">>),
      JsonNumber(0), JsonNumber(5), JsonBool(0), JsonBool(1) }

Payloads == Objects \cup NonObjects

\* The ids a path segment <int:contact_id> may carry in the model.
PathIds == 0 .. MaxId + 1

(* ------------------------- Python semantics ----------------------------- *)

\* `not data`: None, {}, [], "", 0 and False are falsy.
Falsy(data) ==
    CASE data.type = "null" -> TRUE
      [] data.type = "object" -> DOMAIN data.obj = {}
      [] data.type \in {"array", "string"} -> data.arr = <<>>
      [] OTHER -> data.num = 0

\* `key in data` raises TypeError for a number or a boolean.
Iterable(data) == data.type \in {"object", "array", "string"}

\* `key in data`: a key of a dict, an element of a list, a substring of a str.
Contains(data, key) ==
    IF data.type = "object" THEN key \in DOMAIN data.obj
    ELSE \E i \in 1 .. Len(data.arr) : data.arr[i] = key

\* data[key]: TypeError unless data is a dict, KeyError when the key is missing
\* (both here <<>>), else the value (here <<value>>).
Subscript(data, key) ==
    IF data.type = "object" /\ key \in DOMAIN data.obj THEN <<data.obj[key]>> ELSE <<>>

\* A faulty variant: data.get('email'), whose default is None (here "None").
GetOrDefaultNone(data, key, default) ==
    IF key \in DOMAIN data.obj THEN data.obj[key] ELSE "None"

\* data.get('email', '') on a dict.
GetOrDefault(data, key, default) ==
    IF key \in DOMAIN data.obj THEN data.obj[key] ELSE default

\* contacts_db is a dict: a sequence of entries in insertion order, one per key.
DictKeys(db) == {db[i].key : i \in 1 .. Len(db)}

\* A faulty variant: tests the dict (`if not contacts_db`) instead of the key.
DictHasAny(db, k) == Len(db) > 0

\* `k in db`.
DictHas(db, k) == k \in DictKeys(db)

\* db.get(k): None (here <<>>) or the value (here <<value>>).
DictGet(db, k) ==
    IF \E i \in 1 .. Len(db) : db[i].key = k
    THEN <<db[CHOOSE i \in 1 .. Len(db) : db[i].key = k].value>>
    ELSE <<>>

\* A faulty variant: contacts_db = {k: v}, a new dict holding one entry.
DictSetFresh(db, k, v) == <<[key |-> k, value |-> v]>>

\* db[k] = v keeps the place of a key already present and appends a new one.
DictSet(db, k, v) ==
    IF \E i \in 1 .. Len(db) : db[i].key = k
    THEN [i \in 1 .. Len(db) |-> IF db[i].key = k THEN [key |-> k, value |-> v] ELSE db[i]]
    ELSE Append(db, [key |-> k, value |-> v])

\* A faulty variant: reads the value (db.get(k)) and removes nothing.
DictPopNoRemove(db, k) == [db |-> db, value |-> DictGet(db, k)]

\* A faulty variant: db.popitem(), which removes the entry inserted last.
DictPopItem(db, k) ==
    [db |-> SubSeq(db, 1, Len(db) - 1),
     value |-> IF db = <<>> THEN <<>> ELSE <<db[Len(db)].value>>]

\* db.pop(k): the dict without the key, and the value removed (KeyError, here
\* <<>>, when the key is missing).
DictPop(db, k) == [db |-> SelectSeq(db, LAMBDA e : e.key # k), value |-> DictGet(db, k)]

\* A faulty variant: list(reversed(db.values())), newest first.
DictValuesReversed(db) == [i \in 1 .. Len(db) |-> db[Len(db) + 1 - i].value]

\* list(db.values()): the values in insertion order.
DictValues(db) == [i \in 1 .. Len(db) |-> db[i].value]

DictLen(db) == Len(db)

(* ------------------------------ responses ------------------------------- *)

\* A response: the status and the JSON body's parts (kind names the body's shape).
Response(status, kind, contact, contacts, count) ==
    [status |-> status, kind |-> kind, contact |-> contact, contacts |-> contacts,
     count |-> count]

ErrorResponse(status, kind) == Response(status, kind, <<>>, <<>>, 0)

\* An unhandled exception (TypeError, KeyError): Flask answers 500.
InternalError == ErrorResponse(500, "exception")

NoResponse == ErrorResponse(0, "none")

(* ------------------------------ handlers -------------------------------- *)

\* A faulty variant: ids counted from 0.
InitialCounterZero == 1 - 1

InitialCounter == 1

\* A faulty variant: the increment is missing.
NextCounterStuck(c) == c

\* contact_counter += 1
NextCounter(c) == c + 1

\* A faulty variant: rejects empty values too (`not data.get('name')`).
IncompleteOrEmpty(data) ==
    \/ ~Contains(data, "name") \/ ~Contains(data, "phone")
    \/ Subscript(data, "name") = <<"">> \/ Subscript(data, "phone") = <<"">>

\* A faulty variant: `and` in place of `or`.
IncompleteBoth(data) == ~Contains(data, "name") /\ ~Contains(data, "phone")

\* 'name' not in data or 'phone' not in data
Incomplete(data) == ~Contains(data, "name") \/ ~Contains(data, "phone")

\* A faulty variant: stores under the global, already incremented.
StoreKeyCounter(contact_id, counter) == counter

\* The key of contacts_db[contact_id] = {...}; counter is contact_counter then.
StoreKey(contact_id, counter) == contact_id

\* A faulty variant: the id field is taken from the incremented counter.
NewContactNextId(contact_id, data) ==
    [id |-> contact_id + 1,
     name |-> Subscript(data, "name")[1],
     phone |-> Subscript(data, "phone")[1],
     email |-> GetOrDefault(data, "email", "")]

\* The dict literal stored for a new contact.
NewContact(contact_id, data) ==
    [id |-> contact_id,
     name |-> Subscript(data, "name")[1],
     phone |-> Subscript(data, "phone")[1],
     email |-> GetOrDefault(data, "email", "")]

\* What a handler leaves behind: the dict, the counter and the response.
Outcome(db, counter, resp) == [db |-> db, counter |-> counter, resp |-> resp]

\* OPTIONS /contacts: the pre-flight branch of create_contact, which returns
\* before the body is read.
create_contact_options(db, counter) ==
    Outcome(db, counter, Response(200, "status", <<>>, <<>>, 0))

\* POST /contacts
create_contact(db, counter, data) ==
    IF Falsy(data)
    THEN Outcome(db, counter, ErrorResponse(400, "No data provided"))
    ELSE IF ~Iterable(data)
    THEN Outcome(db, counter, InternalError)
    ELSE IF Incomplete(data)
    THEN Outcome(db, counter, ErrorResponse(400, "Name and phone are required"))
    ELSE LET contact_id == counter
             counter2 == NextCounter(counter)
         IN  IF Subscript(data, "name") = <<>> \/ Subscript(data, "phone") = <<>>
             THEN Outcome(db, counter2, InternalError)
             ELSE LET db2 == DictSet(db, StoreKey(contact_id, counter2),
                                     NewContact(contact_id, data))
                      stored == DictGet(db2, contact_id)
                  IN  IF stored = <<>>
                      THEN Outcome(db2, counter2, InternalError)
                      ELSE Outcome(db2, counter2, Response(201, "contact", stored, <<>>, 0))

\* A faulty variant: contacts_db.pop(contact_id, None) in place of .get.
get_contact_pop(db, counter, contact_id) ==
    LET contact == DictGet(db, contact_id)
    IN  IF contact = <<>>
        THEN Outcome(db, counter, ErrorResponse(404, "not found"))
        ELSE Outcome(DictPop(db, contact_id).db, counter,
                     Response(200, "contact", contact, <<>>, 0))

\* A faulty variant: also answers 404 for a contact whose name is falsy.
get_contact_falsy_name(db, counter, contact_id) ==
    LET contact == DictGet(db, contact_id)
    IN  IF contact = <<>> \/ contact[1].name = ""
        THEN Outcome(db, counter, ErrorResponse(404, "not found"))
        ELSE Outcome(db, counter, Response(200, "contact", contact, <<>>, 0))

\* GET /contacts/<int:contact_id>; a stored contact is a dict of four keys,
\* never falsy, so `not contact` is `contact is None`.
get_contact(db, counter, contact_id) ==
    LET contact == DictGet(db, contact_id)
    IN  IF contact = <<>>
        THEN Outcome(db, counter, ErrorResponse(404, "not found"))
        ELSE Outcome(db, counter, Response(200, "contact", contact, <<>>, 0))

\* DELETE /contacts/<int:contact_id>
delete_contact(db, counter, contact_id) ==
    IF ~DictHas(db, contact_id)
    THEN Outcome(db, counter, ErrorResponse(404, "not found"))
    ELSE LET popped == DictPop(db, contact_id)
         IN  IF popped.value = <<>>
             THEN Outcome(db, counter, InternalError)
             ELSE Outcome(popped.db, counter,
                          Response(200, "deleted_contact", popped.value, <<>>, 0))

\* A faulty variant: reports the ids issued so far as the count.
get_all_contacts_by_counter(db, counter) ==
    Outcome(db, counter, Response(200, "contacts", <<>>, DictValues(db), counter - 1))

\* GET /contacts
get_all_contacts(db, counter) ==
    Outcome(db, counter, Response(200, "contacts", <<>>, DictValues(db), DictLen(db)))

\* GET /health
health_check(db, counter) ==
    Outcome(db, counter, Response(200, "health", <<>>, <<>>, DictLen(db)))

(* -------------------------------- state --------------------------------- *)

VARIABLES
    contacts_db,      \* the dict of stored contacts
    contact_counter,  \* the next id
    request,          \* the request handled last
    response,         \* its response
    issued,           \* history: the ids the 201 Creates returned, in call order
    returned,         \* history: the records the 201 Creates returned, for the
                      \* ids no 200 Delete has removed since
    deleted,          \* history: the ids the 200 Deletes removed
    fresh,            \* history: the record a 201 Create returned, while the
                      \* request right after that Create is the last one handled
    threads           \* the Create requests in progress, one per server thread
                      \* (all idle unless requests are handled concurrently)

vars == <<contacts_db, contact_counter, request, response, issued, returned, deleted, fresh,
          threads>>

Threads == 1 .. NumThreads

\* A thread's locals in create_contact: where it is, data, contact_id and the
\* value loaded by `contact_counter += 1`.
Idle == [pc |-> "idle", data |-> JsonNull, contact_id |-> 0, loaded |-> 0]

Request(op, data, id) == [op |-> op, data |-> data, id |-> id]

Init ==
    /\ contacts_db = <<>>
    /\ contact_counter = InitialCounter
    /\ request = Request("none", JsonNull, 0)
    /\ response = NoResponse
    /\ issued = <<>>
    /\ returned = {}
    /\ deleted = {}
    /\ fresh = <<>>
    /\ threads = [t \in Threads |-> Idle]

\* The record the last request returned, when it was a 201 Create.
JustCreated == IF request.op = "create" /\ response.status = 201 THEN response.contact ELSE <<>>

Apply(req, out) ==
    /\ contacts_db' = out.db
    /\ contact_counter' = out.counter
    /\ request' = req
    /\ response' = out.resp
    /\ fresh' = JustCreated
    /\ UNCHANGED threads

\* One POST /contacts with the given body.
CreateWith(data) ==
    LET out == create_contact(contacts_db, contact_counter, data)
    IN  /\ Apply(Request("create", data, 0), out)
        /\ issued' = IF out.resp.status = 201
                     THEN Append(issued, out.resp.contact[1].id) ELSE issued
        /\ returned' = IF out.resp.status = 201
                       THEN returned \cup {out.resp.contact[1]} ELSE returned
        /\ UNCHANGED deleted

Create ==
    /\ contact_counter <= MaxId
    /\ \E data \in Payloads : CreateWith(data)

Options ==
    /\ Apply(Request("options", JsonNull, 0),
             create_contact_options(contacts_db, contact_counter))
    /\ UNCHANGED <<issued, returned, deleted>>

Get ==
    \E id \in PathIds :
        /\ Apply(Request("get", JsonNull, id), get_contact(contacts_db, contact_counter, id))
        /\ UNCHANGED <<issued, returned, deleted>>

\* One DELETE /contacts/<id>.
DeleteOf(id) ==
    LET out == delete_contact(contacts_db, contact_counter, id)
    IN  /\ Apply(Request("delete", JsonNull, id), out)
        /\ deleted' = IF out.resp.status = 200 THEN deleted \cup {id} ELSE deleted
        /\ returned' = IF out.resp.status = 200
                       THEN {r \in returned : r.id # id} ELSE returned
        /\ UNCHANGED issued

Delete == \E id \in PathIds : DeleteOf(id)

List ==
    /\ Apply(Request("list", JsonNull, 0), get_all_contacts(contacts_db, contact_counter))
    /\ UNCHANGED <<issued, returned, deleted>>

Health ==
    /\ Apply(Request("health", JsonNull, 0), health_check(contacts_db, contact_counter))
    /\ UNCHANGED <<issued, returned, deleted>>

Next == Create \/ Options \/ Get \/ Delete \/ List \/ Health

Spec == Init /\ [][Next]_vars

(* ------------------------- the spec's scenario -------------------------- *)

\* The requests of the scenario of spec.md section 8, made in its order on a
\* fresh registry.  Between them any request that leaves the registry as it is
\* may be handled: a Get, a List, a health check, a pre-flight, a Delete of an
\* id that is not stored, a Create that is answered 400.
IvanPayload == JsonObject([name |-> "Ivan Ivanov", phone |-> "+7 999 123-45-67"])

AnnaPayload == JsonObject([name |-> "Anna", phone |-> "1", email |-> "a@x.com"])

ScenarioCreateIvan == issued = <<>> /\ CreateWith(IvanPayload)

ScenarioCreateAnna == Len(issued) = 1 /\ CreateWith(AnnaPayload)

ScenarioDeleteIvan == Len(issued) = 2 /\ deleted = {} /\ DeleteOf(1)

ScenarioRejectedCreate ==
    \E data \in Payloads :
        /\ create_contact(contacts_db, contact_counter, data).resp.status = 400
        /\ CreateWith(data)

ScenarioFailedDelete ==
    \E id \in PathIds :
        /\ delete_contact(contacts_db, contact_counter, id).resp.status = 404
        /\ DeleteOf(id)

ScenarioNext ==
    \/ ScenarioCreateIvan
    \/ ScenarioCreateAnna
    \/ ScenarioDeleteIvan
    \/ ScenarioRejectedCreate
    \/ ScenarioFailedDelete
    \/ Options
    \/ Get
    \/ List
    \/ Health

ScenarioSpec == Init /\ [][ScenarioNext]_vars

(* ------------------------- concurrent Creates --------------------------- *)

\* app.run serves each request in a thread of its own and create_contact takes
\* no lock, so the statements of several Creates interleave.  A step is one
\* read or write of contacts_db or contact_counter.
ConcurrentPayloads ==
    { JsonObject([name |-> "a", phone |-> "1"]),
      JsonObject([name |-> "", phone |-> "", email |-> "e"]),
      JsonObject([name |-> "a"]) }

Busy == {t \in Threads : threads[t].pc # "idle"}

History == <<issued, returned, deleted, fresh>>

\* Lines 82-88: the body is read and checked; a rejected request is answered.
Begin(t) ==
    /\ threads[t].pc = "idle"
    /\ Len(issued) + Cardinality(Busy) < MaxRequests
    /\ \E data \in ConcurrentPayloads :
         IF Falsy(data) \/ ~Iterable(data) \/ Incomplete(data)
         THEN /\ request' = Request("create", data, 0)
              /\ response' = create_contact(contacts_db, contact_counter, data).resp
              /\ fresh' = <<>>
              /\ UNCHANGED <<contacts_db, contact_counter, issued, returned, deleted, threads>>
         ELSE /\ threads' = [threads EXCEPT ![t] = [Idle EXCEPT !.pc = "read", !.data = data]]
              /\ UNCHANGED <<contacts_db, contact_counter, request, response, History>>

\* Line 90: contact_id = contact_counter
ReadCounter(t) ==
    /\ threads[t].pc = "read"
    /\ threads' = [threads EXCEPT ![t].pc = "load", ![t].contact_id = contact_counter]
    /\ UNCHANGED <<contacts_db, contact_counter, request, response, History>>

\* Line 91, the read of contact_counter += 1
LoadCounter(t) ==
    /\ threads[t].pc = "load"
    /\ threads' = [threads EXCEPT ![t].pc = "write", ![t].loaded = contact_counter]
    /\ UNCHANGED <<contacts_db, contact_counter, request, response, History>>

\* Line 91, the write of contact_counter += 1
WriteCounter(t) ==
    /\ threads[t].pc = "write"
    /\ contact_counter' = NextCounter(threads[t].loaded)
    /\ threads' = [threads EXCEPT ![t].pc = "store"]
    /\ UNCHANGED <<contacts_db, request, response, History>>

\* Lines 93-98: contacts_db[contact_id] = {...}
Store(t) ==
    /\ threads[t].pc = "store"
    /\ contacts_db' = DictSet(contacts_db,
                              StoreKey(threads[t].contact_id, contact_counter),
                              NewContact(threads[t].contact_id, threads[t].data))
    /\ threads' = [threads EXCEPT ![t].pc = "respond"]
    /\ UNCHANGED <<contact_counter, request, response, History>>

\* Lines 100-103: jsonify(contacts_db[contact_id]), 201
Respond(t) ==
    /\ threads[t].pc = "respond"
    /\ LET stored == DictGet(contacts_db, threads[t].contact_id)
       IN  /\ request' = Request("create", threads[t].data, 0)
           /\ response' = IF stored = <<>> THEN InternalError
                          ELSE Response(201, "contact", stored, <<>>, 0)
           /\ issued' = IF stored = <<>> THEN issued ELSE Append(issued, stored[1].id)
           /\ returned' = returned \cup {stored[i] : i \in 1 .. Len(stored)}
    /\ fresh' = <<>>
    /\ threads' = [threads EXCEPT ![t] = Idle]
    /\ UNCHANGED <<contacts_db, contact_counter, deleted>>

ConcurrentNext ==
    \E t \in Threads :
        \/ Begin(t)
        \/ ReadCounter(t)
        \/ LoadCounter(t)
        \/ WriteCounter(t)
        \/ Store(t)
        \/ Respond(t)

ConcurrentSpec == Init /\ [][ConcurrentNext]_vars

(* ------------------------------ properties ------------------------------ *)

IssuedIds == {issued[i] : i \in 1 .. Len(issued)}

\* C1: from a fresh registry, whatever requests are made, the ids the
\* successful Creates return are strictly increasing in call order (hence
\* unique), and the first successful Create returns id 1.
C1_CreateIdsIncreaseFromOne ==
    /\ \A i, j \in 1 .. Len(issued) : i < j => issued[i] < issued[j]
    /\ issued # <<>> => issued[1] = 1

\* C2: a deleted id is never reused: once Delete(id) has succeeded, no later
\* Create returns that id and Get(id) answers 404 in every later state.
C2_DeletedIdNeverReused ==
    [][\A id \in deleted' :
          /\ ~(/\ request'.op = "create"
               /\ response'.status = 201
               /\ response'.contact[1].id = id)
          /\ get_contact(contacts_db', contact_counter', id).resp.status = 404]_vars

C2_CreateAfterDelete ==
    \E id \in deleted :
        /\ request.op = "create"
        /\ response.status = 201
        /\ response.contact[1].id > id

C3_HasNameAndPhone(data) ==
    data.type = "object" /\ {"name", "phone"} \subseteq DOMAIN data.obj

\* C3: a Create whose payload is an object with name and phone (with or
\* without email) succeeds with 201, and a Get of the returned id made right
\* after a successful Create answers 200 with the very record Create returned.
C3_CreateThenGetSameRecord ==
    [][/\ (request'.op = "create" /\ C3_HasNameAndPhone(request'.data))
            => response'.status = 201
       /\ (/\ request.op = "create"
           /\ response.status = 201
           /\ request'.op = "get"
           /\ request'.id = response.contact[1].id)
            => (response'.status = 200 /\ response'.contact = response.contact)]_vars

C3_GetRightAfterCreate ==
    /\ fresh # <<>>
    /\ request.op = "get"
    /\ request.id = fresh[1].id
    /\ response.status = 200
    /\ response.contact = fresh

\* The payloads C4 is about: absent or empty, or an object (or an array or a
\* string) in which name or phone is missing.
C4_LacksNameOrPhone(data) ==
    \/ data \in {JsonNull, JsonObject(NoMembers), JsonArray(<<>>), JsonString(<<>>)}
    \/ /\ data.type = "object"
       /\ \E key \in {"name", "phone"} : key \notin DOMAIN data.obj
    \/ /\ data.type \in {"array", "string"}
       /\ \E key \in {"name", "phone"} : \A i \in 1 .. Len(data.arr) : data.arr[i] # key

C5_UnissuedIdNotFound ==
    \A id \in PathIds \ IssuedIds :
        /\ get_contact(contacts_db, contact_counter, id).resp.status = 404
        /\ delete_contact(contacts_db, contact_counter, id).resp.status = 404
        /\ (request.op \in {"get", "delete"} /\ request.id = id) => response.status = 404

C5_DeleteBeyondCounter ==
    /\ request.op = "delete"
    /\ request.id >= contact_counter
    /\ response.status = 404
    /\ contacts_db # <<>>

\* The count a List made in the given state reports.
ListCount(db, counter) == get_all_contacts(db, counter).resp.count

\* C6: after a successful Delete(id), Get(id) answers 404 (also the very next
\* request, when it is that Get), and the count List reports is exactly one
\* less than the count List reported, or would have reported, right before.
C6_DeleteThenGetFailsCountDrops ==
    [][/\ (request'.op = "delete" /\ response'.status = 200)
            => /\ get_contact(contacts_db', contact_counter', request'.id).resp.status = 404
               /\ ListCount(contacts_db', contact_counter')
                      = ListCount(contacts_db, contact_counter) - 1
               /\ request.op = "list"
                      => ListCount(contacts_db', contact_counter') = response.count - 1
       /\ (/\ request.op = "delete"
           /\ response.status = 200
           /\ request'.op = "get"
           /\ request'.id = request.id)
            => response'.status = 404]_vars

C6_GetOfDeletedId ==
    /\ request.op = "get"
    /\ request.id \in deleted
    /\ response.status = 404
    /\ contacts_db # <<>>

\* C7: a Delete of an id never issued or already deleted answers 404, and a
\* Delete answered 404 leaves the dict and the counter as they were.
C7_FailedDeleteChangesNothing ==
    [][/\ (request'.op = "delete" /\ request'.id \in deleted \cup (PathIds \ IssuedIds))
            => response'.status = 404
       /\ (request'.op = "delete" /\ response'.status = 404)
            => (contacts_db' = contacts_db /\ contact_counter' = contact_counter)]_vars

C7_SecondDeleteOfSameId ==
    /\ request.op = "delete"
    /\ request.id \in deleted
    /\ response.status = 404
    /\ contacts_db # <<>>

\* C8: the count List reports equals the length of the contacts it returns,
\* and both equal the number of contacts created and not yet deleted.
C8_ListCountIsLength ==
    LET r == get_all_contacts(contacts_db, contact_counter).resp
        alive == Len(issued) - Cardinality(deleted)
    IN  /\ r.count = Len(r.contacts)
        /\ r.count = alive
        /\ request.op = "list" => (response.count = Len(response.contacts)
                                   /\ response.count = alive)

C8_ListAfterCreatesAndDelete ==
    /\ request.op = "list"
    /\ response.count >= 1
    /\ deleted # {}

\* C9: a successful Delete(id) returns the record Create returned for id,
\* removes that entry and no other, and leaves every other stored contact and
\* the counter as they were.
C9_DeleteReturnsAndRemovesExactlyOne ==
    [][(request'.op = "delete" /\ response'.status = 200)
          => LET id == request'.id
             IN  /\ Len(response'.contact) = 1
                 /\ response'.contact[1] \in returned
                 /\ response'.contact[1].id = id
                 /\ response'.contact = DictGet(contacts_db, id)
                 /\ DictKeys(contacts_db') = DictKeys(contacts_db) \ {id}
                 /\ Len(contacts_db') = Len(contacts_db) - 1
                 /\ \A k \in DictKeys(contacts_db) \ {id} :
                        DictGet(contacts_db', k) = DictGet(contacts_db, k)
                 /\ contact_counter' = contact_counter]_vars

C9_DeleteAmongOthers ==
    /\ request.op = "delete"
    /\ response.status = 200
    /\ Len(contacts_db) >= 2

\* C10: no two stored contacts carry the same id, and each contact is stored
\* under the key equal to its own id field.
C10_StoredIdsUnique ==
    /\ \A i, j \in 1 .. Len(contacts_db) :
           i # j => contacts_db[i].value.id # contacts_db[j].value.id
    /\ \A i \in 1 .. Len(contacts_db) : contacts_db[i].key = contacts_db[i].value.id

C10_SeveralStored ==
    /\ Len(contacts_db) >= 2
    /\ deleted # {}

IvanRecord(id) ==
    [id |-> id, name |-> "Ivan Ivanov", phone |-> "+7 999 123-45-67", email |-> ""]

AnnaRecord(id) == [id |-> id, name |-> "Anna", phone |-> "1", email |-> "a@x.com"]

\* C11: on a fresh registry the scenario runs as stated: the Create of Ivan
\* returns id 1 with email "", the Create of Anna returns id 2, Delete(1)
\* returns Ivan's record, and a List after it reports count 1 and holds only
\* Anna's record with id 2.
C11_ScenarioAsStated ==
    [][/\ (request'.op = "create" /\ request'.data = IvanPayload)
            => (response'.status = 201 /\ response'.contact = <<IvanRecord(1)>>)
       /\ (request'.op = "create" /\ request'.data = AnnaPayload)
            => (response'.status = 201 /\ response'.contact = <<AnnaRecord(2)>>)
       /\ (request'.op = "delete" /\ request'.id = 1 /\ Len(issued) = 2 /\ deleted = {})
            => (response'.status = 200 /\ response'.contact = <<IvanRecord(1)>>)
       /\ (request'.op = "list" /\ deleted # {})
            => (response'.count = 1 /\ response'.contacts = <<AnnaRecord(2)>>)]_vars

C11_ListAfterDeleteOfIvan ==
    /\ request.op = "list"
    /\ deleted = {1}
    /\ issued = <<1, 2>>
    /\ response.count = 1

C12_HasEmptyNameOrPhone(data) ==
    /\ data.type = "object"
    /\ {"name", "phone"} \subseteq DOMAIN data.obj
    /\ (data.obj["name"] = "" \/ data.obj["phone"] = "")

\* C12: Create checks presence only: an object payload in which name or phone
\* (or both) is the empty string, with or without email, is answered 201,
\* takes one id and stores the record with those empty values.
C12_EmptyValuesAccepted ==
    [][(request'.op = "create" /\ C12_HasEmptyNameOrPhone(request'.data))
          => /\ response'.status = 201
             /\ contact_counter' = contact_counter + 1
             /\ Len(contacts_db') = Len(contacts_db) + 1
             /\ Len(response'.contact) = 1
             /\ response'.contact[1].id = contact_counter
             /\ response'.contact[1].name = request'.data.obj["name"]
             /\ response'.contact[1].phone = request'.data.obj["phone"]
             /\ DictGet(contacts_db', contact_counter) = response'.contact]_vars

C12_EmptyNameAndPhoneStored ==
    /\ request.op = "create"
    /\ response.status = 201
    /\ response.contact[1].name = ""
    /\ response.contact[1].phone = ""
    /\ DictGet(contacts_db, response.contact[1].id) = response.contact

\* C13: every stored contact has the four fields id, name, phone and email,
\* and the email a Create stores is the payload's email when the key is
\* present and the empty string when it is absent.
C13_FourFieldsEmailDefault ==
    [][/\ \A i \in 1 .. Len(contacts_db') :
              DOMAIN contacts_db'[i].value = {"id", "name", "phone", "email"}
       /\ (request'.op = "create" /\ response'.status = 201)
            => LET stored == DictGet(contacts_db', response'.contact[1].id)
               IN  /\ Len(stored) = 1
                   /\ stored[1].email = IF "email" \in DOMAIN request'.data.obj
                                        THEN request'.data.obj["email"]
                                        ELSE ""]_vars

C13_StoredWithAndWithoutEmail ==
    /\ request.op = "create"
    /\ response.status = 201
    /\ "email" \notin DOMAIN request.data.obj
    /\ response.contact[1].email = ""
    /\ \E i \in 1 .. Len(contacts_db) : contacts_db[i].value.email = "e"

\* C14: a stored contact is never changed in place: over every step other
\* than the successful Delete of its own id, Get of its id answers 200 with
\* the same record before and after, the record its Create returned.
C14_StoredContactUnchanged ==
    [][\A k \in DictKeys(contacts_db) :
          \/ (request'.op = "delete" /\ request'.id = k /\ response'.status = 200)
          \/ LET before == get_contact(contacts_db, contact_counter, k).resp
                 after == get_contact(contacts_db', contact_counter', k).resp
             IN  /\ before.status = 200
                 /\ after = before
                 /\ Len(after.contact) = 1
                 /\ after.contact[1] \in returned'
                 /\ after.contact[1].id = k]_vars

C14_GetAfterOtherCreatesAndDeletes ==
    /\ request.op = "get"
    /\ response.status = 200
    /\ request.id = 1
    /\ issued = <<1, 2, 3>>
    /\ deleted = {2}
    /\ response.contact[1] \in returned

C15_InOrder(contacts) ==
    /\ \A i, j \in 1 .. Len(contacts) : i < j => contacts[i].id < contacts[j].id
    /\ [i \in 1 .. Len(contacts) |-> contacts[i].id]
           = SelectSeq(issued, LAMBDA id : id \notin deleted)

\* C15: List returns the stored contacts in the order their Creates were
\* handled, leaving out the deleted ones, which is strictly ascending id order.
C15_ListInInsertionOrder ==
    /\ C15_InOrder(get_all_contacts(contacts_db, contact_counter).resp.contacts)
    /\ request.op = "list" => C15_InOrder(response.contacts)

C15_ListOfSeveralAfterDelete ==
    /\ request.op = "list"
    /\ Len(response.contacts) >= 2
    /\ deleted # {}

\* C16: when Creates run concurrently and their steps interleave in any
\* order, every successful Create receives a distinct id and every created
\* record remains stored: none is overwritten by another Create.
C16_ConcurrentCreatesDistinct ==
    /\ \A i, j \in 1 .. Len(issued) : i # j => issued[i] # issued[j]
    /\ \A t \in Threads :
           threads[t].pc = "respond"
               => DictGet(contacts_db, threads[t].contact_id)
                      = <<NewContact(threads[t].contact_id, threads[t].data)>>
    /\ Busy = {} => Len(contacts_db) = Len(issued)

\* C17: the counter moves in lockstep with the stored records: after every
\* request it equals 1 plus the number of Creates answered 201, it never
\* decreases, and every key of the dict is below it.
C17_CounterInLockstep ==
    [][/\ contact_counter' = 1 + Len(issued')
       /\ contact_counter' >= contact_counter
       /\ \A k \in DictKeys(contacts_db') : k < contact_counter']_vars

\* C18: Get (answered 200 or 404), List and the health check are read-only:
\* each leaves the dict and the counter unchanged; and the health check's
\* contacts_count is the count List reports in the same state.
C18_ReadsChangeNothing ==
    [][/\ request'.op \in {"get", "list", "health"}
            => (contacts_db' = contacts_db /\ contact_counter' = contact_counter)
       /\ request'.op = "health"
            => response'.count = ListCount(contacts_db, contact_counter)
       /\ health_check(contacts_db', contact_counter').resp.count
              = ListCount(contacts_db', contact_counter')]_vars

C18_HealthOnUsedRegistry ==
    /\ request.op = "health"
    /\ response.status = 200
    /\ response.count >= 1
    /\ deleted # {}

====
